---------------------------- MODULE Spec2Model ----------------------------
(***************************************************************************)
(* Model of gpsd's libgps/hex.c: gpsd_packetdump, gps_hexdump, hex2bin,    *)
(* gps_hexpack, hex_escapes and gps_visibilize.                            *)
(*                                                                         *)
(* The C functions work on caller-owned buffers through pointers.  The     *)
(* model keeps one flat byte memory; a pointer is an address in it, and a  *)
(* C index p[i] is the cell at address p + i.  Every call is one action:   *)
(* the caller lays out fresh buffers, the function runs to its return.     *)
(* Each function is an operator over a call state [mem, wr, rd, calls]:    *)
(* the memory, the destination offsets written, the source offsets read,   *)
(* and the functions entered.                                              *)
(***************************************************************************)
EXTENDS Integers, Sequences, FiniteSets

(***************************************************************************)
(* Bounds of the model.                                                    *)
(***************************************************************************)
\* gpsd.h's MAX_PACKET_LENGTH and stdio.h's BUFSIZ are set outside hex.c
\* (9216 and 8192 on a glibc build); the model scales both down and keeps
\* their order, BUFSIZ / 2 < MAX_PACKET_LENGTH.
MAX_PACKET_LENGTH == 4
BUFSIZ == 6
\* longest source byte buffer handed to the dump functions
MaxBinLen == 5
\* largest declared capacity of a text destination
MaxCap == 12
\* longest hex string handed to gps_hexpack
MaxStrLen == 8
\* largest declared capacity of gps_hexpack's destination
MaxPackCap == 4
\* longest raw string handed to hex_escapes
MaxRawLen == 4

(***************************************************************************)
(* Memory layout.                                                          *)
(***************************************************************************)
Max(a, b) == IF a >= b THEN a ELSE b
Min(a, b) == IF a <= b THEN a ELSE b

\* one caller buffer: room for every source, and for every destination
\* write the code can make, those past a too small declared capacity too
RegionSize == Max(Max(2 * MaxBinLen + 1, MaxCap), Max(MaxStrLen, 8) + 1) + 1
SrcBase == 0
DstBase == SrcBase + RegionSize
\* the string literal "" returned by gpsd_packetdump: one static NUL byte
EmptyLiteral == DstBase + RegionSize
MemSize == EmptyLiteral + 1
\* what a buffer holds before the call writes it
Stale == 170
NULL == -1

Byte == 0..255

FreshMem == [a \in 0..(MemSize - 1) |-> IF a = EmptyLiteral THEN 0 ELSE Stale]

RECURSIVE Install(_, _, _)
\* the memory with the bytes of s laid out from address base on
Install(mem, base, s) ==
    IF s = <<>> THEN mem
    ELSE Install([mem EXCEPT ![base] = Head(s)], base + 1, Tail(s))

\* a call state
Enter(mem, fn) == [mem |-> mem, wr |-> {}, rd |-> {}, calls |-> {fn}]

\* p[off] = v through destination pointer p
Store(st, p, off, v) ==
    [st EXCEPT !.mem = [@ EXCEPT ![p + off] = v], !.wr = @ \cup {off}]

\* the read of p[off] through the source pointer, noted
Read(st, off) == [st EXCEPT !.rd = @ \cup {off}]

\* size_t arithmetic: a - b wraps modulo 2^w.  w = 16 is the least width C
\* allows; a wider size_t compares the same with every index of the model.
SizeModulus == 2 ^ 16
SizeSub(a, b) == (a - b + SizeModulus) % SizeModulus

(***************************************************************************)
(* <ctype.h> in the "C" locale.                                            *)
(***************************************************************************)
isprint(c) == c >= 32 /\ c <= 126
isspace(c) == c = 32 \/ (c >= 9 /\ c <= 13)

(***************************************************************************)
(* gps_hexdump                                                             *)
(***************************************************************************)
\* "0123456789abcdef"
hexchar == <<48, 49, 50, 51, 52, 53, 54, 55, 56, 57, 97, 98, 99, 100, 101, 102>>

\* the loop condition's capacity test, j < (scbuflen - 3)
hexdump_room(j, scbuflen) == j < SizeSub(scbuflen, 3)

\* hexdump_pair with the nibbles in the wrong order
hexdump_pair_swapped(st, scbuf, j, b) ==
    Store(Store(st, scbuf, j, hexchar[(b % 16) + 1]),
          scbuf, j + 1, hexchar[(b \div 16) + 1])

\* the pair written for byte b at scbuf[j], scbuf[j + 1]
hexdump_pair(st, scbuf, j, b) ==
    Store(Store(st, scbuf, j, hexchar[(b \div 16) + 1]),
          scbuf, j + 1, hexchar[(b % 16) + 1])

RECURSIVE hexdump_loop(_, _, _, _, _, _, _)
hexdump_loop(st, scbuf, scbuflen, binbuf, len, i, j) ==
    IF i < len /\ hexdump_room(j, scbuflen)
    THEN hexdump_loop(hexdump_pair(st, scbuf, j, st.mem[binbuf + i]),
                      scbuf, scbuflen, binbuf, len, i + 1, j + 2)
    ELSE Store(st, scbuf, j, 0)

\* hexdump_len without the MAX_PACKET_LENGTH cut
hexdump_len_uncut(binbuflen) == binbuflen

\* the truncation limit, len
hexdump_len(binbuflen) ==
    IF binbuflen > MAX_PACKET_LENGTH THEN MAX_PACKET_LENGTH ELSE binbuflen

\* the call state at return; the function returns scbuf
gps_hexdump(st0, scbuf, scbuflen, binbuf, binbuflen) ==
    LET st == [st0 EXCEPT !.calls = @ \cup {"gps_hexdump"}]
    IN  IF binbuf = NULL \/ binbuflen = 0
        THEN Store(st, scbuf, 0, 0)
        ELSE hexdump_loop(st, scbuf, scbuflen, binbuf,
                          hexdump_len(binbuflen), 0, 0)

(***************************************************************************)
(* gpsd_packetdump                                                         *)
(***************************************************************************)
\* packetdump_printable without the isspace() test
packetdump_printable_nospace(c) == isprint(c)

\* the scan's test of one byte
packetdump_printable(c) == isprint(c) \/ isspace(c)

\* [st |-> call state at return, ret |-> the pointer returned]
gpsd_packetdump(st, scbuf, scbuflen, binbuf, binbuflen) ==
    IF binbuf = NULL
    THEN [st |-> st, ret |-> EmptyLiteral]
    ELSE IF \A k \in 0..(binbuflen - 1) : packetdump_printable(st.mem[binbuf + k])
    THEN [st |-> st, ret |-> binbuf]
    ELSE [st |-> gps_hexdump(st, scbuf, scbuflen, binbuf, binbuflen),
          ret |-> scbuf]

(***************************************************************************)
(* hex2bin and gps_hexpack                                                 *)
(***************************************************************************)
\* one hex digit's value as hex2bin computes it, -1 for any other character
hex2bin_digit(a) ==
    IF a >= 97 /\ a <= 102 THEN a + 10 - 97
    ELSE IF a >= 65 /\ a <= 70 THEN a + 10 - 65
    ELSE IF a >= 48 /\ a <= 57 THEN a - 48
    ELSE -1

\* hex2bin(s) on the two characters at address s
hex2bin(mem, s) ==
    LET a == hex2bin_digit(mem[s])
        b == hex2bin_digit(mem[s + 1])
    IN  IF a = -1 THEN -1
        ELSE IF b = -1 THEN -1
        ELSE a * 16 + b

RECURSIVE strnlen(_, _, _, _)
\* strnlen(s, maxlen), counted from n
strnlen(mem, s, maxlen, n) ==
    IF n < maxlen /\ mem[s + n] # 0 THEN strnlen(mem, s, maxlen, n + 1) ELSE n

\* the pair count j
hexpack_pairs(mem, src) == strnlen(mem, src, BUFSIZ, 0) \div 2

\* hexpack_badlen refusing a destination the pairs fill exactly
hexpack_badlen_strict(j, len) == 1 > j \/ j >= len

\* the length test that returns -2
hexpack_badlen(j, len) == 1 > j \/ j > len

RECURSIVE memset(_, _, _, _, _)
\* memset(p + off, v, n)
memset(st, p, off, v, n) ==
    IF n = 0 THEN st ELSE memset(Store(st, p, off, v), p, off + 1, v, n - 1)

RECURSIVE hexpack_loop(_, _, _, _, _, _)
\* the decoding loop from i on, then the zero fill
hexpack_loop(st, src, dst, len, j, i) ==
    IF i < j
    THEN LET k == hex2bin(st.mem, src + i * 2)
         IN  IF k = -1
             THEN [st |-> st, ret |-> -1]
             ELSE hexpack_loop(Store(st, dst, i, k % 256), src, dst, len, j, i + 1)
    ELSE [st |-> memset(st, dst, i, 0, len - i), ret |-> j]

\* gps_hexpack clearing the destination before decoding instead of after
gps_hexpack_clearfirst(st, src, dst, len) ==
    LET j == hexpack_pairs(st.mem, src)
    IN  IF hexpack_badlen(j, len)
        THEN [st |-> st, ret |-> -2]
        ELSE hexpack_loop(memset(st, dst, 0, 0, len), src, dst, len, j, 0)

\* [st |-> call state at return, ret |-> the count or the error returned]
gps_hexpack(st, src, dst, len) ==
    LET j == hexpack_pairs(st.mem, src)
    IN  IF hexpack_badlen(j, len)
        THEN [st |-> st, ret |-> -2]
        ELSE hexpack_loop(st, src, dst, len, j, 0)

(***************************************************************************)
(* hex_escapes                                                             *)
(***************************************************************************)
\* the first switch after \x: the high nibble, -1 for the default arm
escapes_high(ch) ==
    CASE ch = 48 -> 0
      [] ch = 49 -> 16
      [] ch = 50 -> 32
      [] ch = 51 -> 48
      [] ch = 52 -> 64
      [] ch = 53 -> 80
      [] ch = 54 -> 96
      [] ch = 55 -> 112
      [] ch = 56 -> 128
      [] ch = 57 -> 144
      [] ch \in {65, 97} -> 160
      [] ch \in {66, 98} -> 176
      [] ch \in {67, 99} -> 192
      [] ch \in {68, 100} -> 208
      [] ch \in {69, 101} -> 224
      [] ch \in {70, 102} -> 240
      [] OTHER -> -1

\* escapes_low without the upper-case arms
escapes_low_lowercase(ch) ==
    IF ch \in 48..57 THEN ch - 48
    ELSE IF ch \in 97..102 THEN ch - 87
    ELSE -1

\* the second switch after \x: the low nibble, -1 for the default arm
escapes_low(ch) ==
    CASE ch = 48 -> 0
      [] ch = 49 -> 1
      [] ch = 50 -> 2
      [] ch = 51 -> 3
      [] ch = 52 -> 4
      [] ch = 53 -> 5
      [] ch = 54 -> 6
      [] ch = 55 -> 7
      [] ch = 56 -> 8
      [] ch = 57 -> 9
      [] ch \in {65, 97} -> 10
      [] ch \in {66, 98} -> 11
      [] ch \in {67, 99} -> 12
      [] ch \in {68, 100} -> 13
      [] ch \in {69, 101} -> 14
      [] ch \in {70, 102} -> 15
      [] OTHER -> -1

\* the outer switch's one-character arms: the byte written, -1 for x and
\* for the default arm
escapes_simple(ch) ==
    CASE ch = 98 -> 8
      [] ch = 101 -> 27
      [] ch = 102 -> 12
      [] ch = 110 -> 10
      [] ch = 114 -> 13
      [] ch = 116 -> 13
      [] ch = 118 -> 11
      [] ch = 92 -> 92
      [] OTHER -> -1

RECURSIVE escapes_loop(_, _, _, _, _)
\* the for loop with raw at offset r and cookend at offset c
escapes_loop(st0, cooked, raw, r, c) ==
    LET st == Read(st0, r)
        ch == st.mem[raw + r]
    IN  IF ch = 0 THEN [st |-> st, ret |-> c]
        ELSE IF ch # 92
        THEN escapes_loop(Store(st, cooked, c, ch), cooked, raw, r + 1, c + 1)
        ELSE LET st1 == Read(st, r + 1)
                 e == st1.mem[raw + r + 1]
             IN  IF e = 120
                 THEN LET st2 == Read(st1, r + 2)
                          hi == escapes_high(st2.mem[raw + r + 2])
                      IN  IF hi = -1 THEN [st |-> st2, ret |-> -1]
                          ELSE LET st3 == Read(st2, r + 3)
                                   lo == escapes_low(st3.mem[raw + r + 3])
                               IN  IF lo = -1 THEN [st |-> st3, ret |-> -2]
                                   ELSE escapes_loop(
                                            Store(st3, cooked, c, (hi + lo) % 256),
                                            cooked, raw, r + 4, c + 1)
                 ELSE IF escapes_simple(e) = -1
                 THEN [st |-> st1, ret |-> -3]
                 ELSE escapes_loop(Store(st1, cooked, c, escapes_simple(e)),
                                   cooked, raw, r + 2, c + 1)

\* [st |-> call state at return, ret |-> the count or the error returned]
hex_escapes(st, cooked, raw) == escapes_loop(st, cooked, raw, 0, 0)

(***************************************************************************)
(* gps_visibilize                                                          *)
(***************************************************************************)
RECURSIVE snprintf_put(_, _, _, _, _)
\* the characters of s that fit in size - 1, written from p[off] on
snprintf_put(st, p, off, room, s) ==
    IF s = <<>> \/ room = 0 THEN Store(st, p, off, 0)
    ELSE snprintf_put(Store(st, p, off, Head(s)), p, off + 1, room - 1, Tail(s))

\* snprintf(&p[off], size, ...) of the formatted text s: the characters that
\* fit and a terminator; the text's full length is returned
snprintf(st, p, off, size, s) ==
    [st |-> IF size = 0 THEN st ELSE snprintf_put(st, p, off, size - 1, s),
     ret |-> Len(s)]

\* visibilize_room keeping room for the escape and the terminator only
visibilize_room_tight(next, outlen) == next + 4 < outlen

\* the loop condition's capacity test, (next + 6) < outlen
visibilize_room(next, outlen) == next + 6 < outlen

\* visibilize_printable taking DEL and the high half for printable
visibilize_printable_wide(c) == c >= 32

\* the test that picks "%c" over "\\x%02x"
visibilize_printable(c) == isprint(c)

\* the snprintf call made for byte b at outbuf[next]
visibilize_put(st, outbuf, next, b) ==
    IF visibilize_printable(b)
    THEN snprintf(st, outbuf, next, 2, <<b>>)
    ELSE snprintf(st, outbuf, next, 6,
                  <<92, 120, hexchar[(b \div 16) + 1], hexchar[(b % 16) + 1]>>)

RECURSIVE visibilize_loop(_, _, _, _, _, _, _)
visibilize_loop(st, outbuf, outlen, inbuf, inlen, sp, next) ==
    IF sp < inlen /\ visibilize_room(next, outlen)
    THEN LET r == visibilize_put(st, outbuf, next, st.mem[inbuf + sp])
         IN  IF 1 > r.ret THEN r.st
             ELSE visibilize_loop(r.st, outbuf, outlen, inbuf, inlen,
                                  sp + 1, next + r.ret)
    ELSE st

\* the call state at return; the function returns outbuf
gps_visibilize(st, outbuf, outlen, inbuf, inlen) ==
    visibilize_loop(Store(st, outbuf, 0, 0), outbuf, outlen, inbuf, inlen, 0, 0)

(***************************************************************************)
(* The callers' inputs.                                                    *)
(***************************************************************************)
\* all sequences over alphabet A of length at most n
SeqsUpTo(A, n) == UNION {[1..k -> A] : k \in 0..n}

\* newline, 'A', 0xff: whitespace, printable, neither
BinAlphabet == {10, 65, 255}
\* every one-byte buffer, the short buffers over BinAlphabet, section 8's
\* visibilize example
BinInputs ==
    SeqsUpTo(BinAlphabet, MaxBinLen) \cup {<<v>> : v \in Byte} \cup {<<0, 65, 255>>}

\* section 8's visibilize example has capacity 64
VisExampleCap(b) == IF b = <<0, 65, 255>> THEN 64 ELSE 0

\* a source argument: the pointer, the bytes behind it, the length passed
BinSources ==
    {[ptr |-> SrcBase, bytes |-> b, len |-> Len(b)] : b \in BinInputs}
    \cup {[ptr |-> NULL, bytes |-> <<>>, len |-> n] : n \in 0..MaxBinLen}

\* the hex digits of both cases; with them the characters next to their
\* ranges, a space and a byte with the high bit set
HexDigits == (48..57) \cup (65..70) \cup (97..102)
HexNeighbours == HexDigits \cup {47, 58, 64, 71, 96, 103, 32, 177}
\* '1', 'F', 'g'
PackAlphabet == {49, 70, 103}
\* the short strings over PackAlphabet, every two-character string over the
\* hex digits and their neighbours, section 8's "12g4" and "abcdef"
PackInputs ==
    SeqsUpTo(PackAlphabet, MaxStrLen)
    \cup {<<a, b>> : a \in HexNeighbours, b \in HexNeighbours}
    \cup {<<49, 50, 103, 52>>, <<97, 98, 99, 100, 101, 102>>}

\* backslash, 'x', 't', 'q', '4', 'A', 'g'
RawAlphabet == {92, 120, 116, 113, 52, 65, 103}
\* the short strings over RawAlphabet, a backslash before every character,
\* \x before every pair of hex digits and neighbours, section 8's
\* "a\tb\x41" and "a\q"
RawInputs ==
    SeqsUpTo(RawAlphabet, MaxRawLen)
    \cup {<<92, c>> : c \in 1..255}
    \cup {<<92, 120, a, b>> : a \in HexNeighbours, b \in HexNeighbours}
    \cup {<<97, 92, 116, 98, 92, 120, 52, 49>>, <<97, 92, 113>>}

\* a NUL-terminated string laid out at base
InstallStr(mem, base, s) == Install(mem, base, s \o <<0>>)

(***************************************************************************)
(* State: the last call made, its arguments, the memory before and after   *)
(* it, what it returned and what it touched.                               *)
(***************************************************************************)
VARIABLES op, input, a_src, a_len, a_dst, a_cap, pre, mem, ret, wr, rd, calls,
          dumpcap

vars == <<op, input, a_src, a_len, a_dst, a_cap, pre, mem, ret, wr, rd, calls,
          dumpcap>>

Init ==
    /\ op = "none"
    /\ input = <<>>
    /\ a_src = NULL
    /\ a_len = 0
    /\ a_dst = NULL
    /\ a_cap = 0
    /\ pre = FreshMem
    /\ mem = FreshMem
    /\ ret = 0
    /\ wr = {}
    /\ rd = {}
    /\ calls = {}
    /\ dumpcap = 0

\* the call's arguments and the memory it starts from
Called(fn, in, src, len, dst, cap, m) ==
    /\ op' = fn
    /\ input' = in
    /\ a_src' = src
    /\ a_len' = len
    /\ a_dst' = dst
    /\ a_cap' = cap
    /\ pre' = m

\* the call's outcome
Returned(st, r) ==
    /\ mem' = st.mem
    /\ ret' = r
    /\ wr' = st.wr
    /\ rd' = st.rd
    /\ calls' = st.calls

\* gps_hexdump(scbuf, scbuflen, binbuf, binbuflen)
Hexdump ==
    /\ op = "none"
    /\ \E s \in BinSources, c \in 0..MaxCap :
        LET m == Install(FreshMem, SrcBase, s.bytes)
            st == gps_hexdump(Enter(m, "gps_hexdump"), DstBase, c, s.ptr, s.len)
        IN  /\ Called("gps_hexdump", s.bytes, s.ptr, s.len, DstBase, c, m)
            /\ Returned(st, DstBase)
            /\ dumpcap' = c

\* gpsd_packetdump(scbuf, scbuflen, binbuf, binbuflen)
Packetdump ==
    /\ op = "none"
    /\ \E s \in BinSources, c \in 0..MaxCap :
        LET m == Install(FreshMem, SrcBase, s.bytes)
            r == gpsd_packetdump(Enter(m, "gpsd_packetdump"), DstBase, c,
                                 s.ptr, s.len)
        IN  /\ Called("gpsd_packetdump", s.bytes, s.ptr, s.len, DstBase, c, m)
            /\ Returned(r.st, r.ret)
            /\ dumpcap' = 0

\* gps_visibilize(outbuf, outlen, inbuf, inlen)
Visibilize ==
    /\ op = "none"
    /\ \E b \in BinInputs : \E c \in (0..MaxCap) \cup {VisExampleCap(b)} :
        LET m == Install(FreshMem, SrcBase, b)
            st == gps_visibilize(Enter(m, "gps_visibilize"), DstBase, c,
                                 SrcBase, Len(b))
        IN  /\ Called("gps_visibilize", b, SrcBase, Len(b), DstBase, c, m)
            /\ Returned(st, DstBase)
            /\ dumpcap' = 0

\* gps_hexpack(src, dst, len) with dst a buffer of its own
Hexpack ==
    /\ op = "none"
    /\ \E s \in PackInputs, c \in 0..MaxPackCap :
        LET m == InstallStr(FreshMem, SrcBase, s)
            r == gps_hexpack(Enter(m, "gps_hexpack"), SrcBase, DstBase, c)
        IN  /\ Called("gps_hexpack", s, SrcBase, Len(s), DstBase, c, m)
            /\ Returned(r.st, r.ret)
            /\ dumpcap' = 0

\* gps_hexpack(buf, buf, len): the destination is the source buffer
HexpackInPlace ==
    /\ op = "none"
    /\ \E s \in PackInputs, c \in 0..MaxPackCap :
        LET m == InstallStr(FreshMem, SrcBase, s)
            r == gps_hexpack(Enter(m, "gps_hexpack"), SrcBase, SrcBase, c)
        IN  /\ Called("gps_hexpack", s, SrcBase, Len(s), SrcBase, c, m)
            /\ Returned(r.st, r.ret)
            /\ dumpcap' = 0

\* gps_hexpack on the text the last gps_hexdump left in scbuf, decoded into
\* the buffer the bytes came from; input and dumpcap stay those of the dump
HexpackOfDump ==
    /\ op = "gps_hexdump"
    /\ a_src # NULL
    /\ \E c \in 0..MaxPackCap :
        LET r == gps_hexpack(Enter(mem, "gps_hexpack"), DstBase, SrcBase, c)
        IN  /\ Called("roundtrip", input, DstBase, a_len, SrcBase, c, mem)
            /\ Returned(r.st, r.ret)
            /\ dumpcap' = dumpcap

\* hex_escapes(cooked, raw)
HexEscapes ==
    /\ op = "none"
    /\ \E s \in RawInputs :
        LET m == InstallStr(FreshMem, SrcBase, s)
            r == hex_escapes(Enter(m, "hex_escapes"), DstBase, SrcBase)
        IN  /\ Called("hex_escapes", s, SrcBase, Len(s), DstBase, 0, m)
            /\ Returned(r.st, r.ret)
            /\ dumpcap' = 0

\* the caller is done with the buffers of the last call
Release ==
    /\ op # "none"
    /\ Called("none", <<>>, NULL, 0, NULL, 0, FreshMem)
    /\ mem' = FreshMem
    /\ ret' = 0
    /\ wr' = {}
    /\ rd' = {}
    /\ calls' = {}
    /\ dumpcap' = 0

Next ==
    \/ Release
    \/ Hexdump
    \/ Packetdump
    \/ Visibilize
    \/ Hexpack
    \/ HexpackInPlace
    \/ HexpackOfDump
    \/ HexEscapes

Spec == Init /\ [][Next]_vars

(***************************************************************************)
(* What the claims speak of, stated apart from the code's operators.       *)
(***************************************************************************)
\* the n bytes at address p
BytesAt(m, p, n) == [k \in 1..n |-> m[p + k - 1]]

RECURSIVE CStrFrom(_, _, _)
CStrFrom(m, p, acc) ==
    IF p >= MemSize \/ m[p] = 0 THEN acc ELSE CStrFrom(m, p + 1, Append(acc, m[p]))
\* the NUL-terminated text at address p
CStr(m, p) == CStrFrom(m, p, <<>>)

Take(s, n) == SubSeq(s, 1, Min(n, Len(s)))

LowerHexDigit(n) == IF n < 10 THEN 48 + n ELSE 97 + (n - 10)
\* value of a character of [0-9a-fA-F]
HexValue(c) ==
    IF c \in 48..57 THEN c - 48 ELSE IF c \in 65..70 THEN c - 55 ELSE c - 87

RECURSIVE HexText(_)
\* two lowercase hex characters per byte, high nibble first
HexText(b) ==
    IF b = <<>> THEN <<>>
    ELSE <<LowerHexDigit(Head(b) \div 16), LowerHexDigit(Head(b) % 16)>>
         \o HexText(Tail(b))

(***************************************************************************)
(* C1: round trip of gps_hexdump and gps_hexpack.                          *)
(***************************************************************************)
\* the state after gps_hexpack has decoded what gps_hexdump wrote for input
RoundTripDone == op = "roundtrip"

\* the decode succeeded and gave back the bytes of input
RoundTripExact ==
    /\ ret = Len(input)
    /\ BytesAt(mem, a_dst, Len(input)) = input

C2_CapacitySafety ==
    op \in {"gps_hexdump", "gps_visibilize", "gps_hexpack"}
    => \A i \in wr : i < a_cap

(***************************************************************************)
(* C3: what gps_hexdump leaves in the destination.                         *)
(***************************************************************************)
\* the bytes gps_hexdump is given: none when the source is absent
DumpSource == IF a_src = NULL THEN <<>> ELSE Take(input, a_len)

PackValue(s, i) == 16 * HexValue(s[2 * i + 1]) + HexValue(s[2 * i + 2])

\* the classification of C4 for pair count pairs
HexpackOutcome(pairs) ==
    IF pairs < 1 \/ pairs > a_cap
    THEN /\ ret = -2
         /\ mem = pre
         /\ wr = {}
    ELSE IF \E k \in 1..(2 * pairs) : input[k] \notin HexDigits
    THEN ret = -1
    ELSE /\ ret = pairs
         /\ \A i \in 0..(pairs - 1) : mem[a_dst + i] = PackValue(input, i)
         /\ \A i \in pairs..(a_cap - 1) : mem[a_dst + i] = 0

\* C4 as claimed: with pairs = floor(len(source) / 2) the call returns -2
\* exactly when pairs < 1 or pairs > capacity, the destination unchanged;
\* otherwise -1 exactly when one of the first 2 * pairs characters is no hex
\* digit; otherwise pairs, the destination holding the decoded bytes and
\* zeros up to the capacity.
C4_HexpackOutcome_AsClaimed ==
    op = "gps_hexpack" => HexpackOutcome(Len(input) \div 2)

\* C4 amended: the same with pairs = floor(min(len(source), BUFSIZ) / 2).
C4_HexpackOutcome ==
    op = "gps_hexpack" => HexpackOutcome(Min(Len(input), BUFSIZ) \div 2)

\* section 8's decode("12g4", dst, 4) has failed with InvalidDigit
C4_Witness ==
    /\ op = "gps_hexpack"
    /\ input = <<49, 50, 103, 52>>
    /\ a_cap = 4
    /\ a_dst # a_src
    /\ ret = -1

(***************************************************************************)
(* C5, C6: hex_escapes.                                                    *)
(***************************************************************************)
\* the byte section 4.4 gives a one-letter escape, -1 for any other letter
EscapeImage(c) ==
    CASE c = 98 -> 8
      [] c = 101 -> 27
      [] c = 102 -> 12
      [] c = 110 -> 10
      [] c = 114 -> 13
      [] c = 116 -> 9
      [] c = 118 -> 11
      [] c = 92 -> 92
      [] OTHER -> -1

\* the character of s at position k, the terminator after its end
CharAt(s, k) == IF k <= Len(s) THEN s[k] ELSE 0

RECURSIVE Cook(_, _, _)
\* section 4.4 on the raw string s from position k on, acc the bytes so far:
\* [err |-> 0 and the cooked bytes, or the code of the first malformed escape]
Cook(s, k, acc) ==
    IF k > Len(s) THEN [err |-> 0, bytes |-> acc]
    ELSE IF s[k] # 92 THEN Cook(s, k + 1, Append(acc, s[k]))
    ELSE IF CharAt(s, k + 1) = 120
    THEN IF CharAt(s, k + 2) \notin HexDigits THEN [err |-> -1, bytes |-> acc]
         ELSE IF CharAt(s, k + 3) \notin HexDigits THEN [err |-> -2, bytes |-> acc]
         ELSE Cook(s, k + 4,
                   Append(acc, 16 * HexValue(s[k + 2]) + HexValue(s[k + 3])))
    ELSE IF EscapeImage(CharAt(s, k + 1)) = -1 THEN [err |-> -3, bytes |-> acc]
    ELSE Cook(s, k + 2, Append(acc, EscapeImage(s[k + 1])))

\* C5 as claimed: for a well-formed raw string the cooked bytes are the
\* in-order images of its characters and escapes, \t giving 0x09.
C5_EscapeImages ==
    (op = "hex_escapes" /\ Cook(input, 1, <<>>).err = 0)
    => /\ ret = Len(Cook(input, 1, <<>>).bytes)
       /\ BytesAt(mem, a_dst, ret) = Cook(input, 1, <<>>).bytes

\* C6: the first malformed escape, scanning left to right, ends the call with
\* -1 (bad character right after \x), -2 (bad second character after \x) or
\* -3 (unknown escape letter), a string ending inside an escape included; no
\* character past the terminator is read; a count >= 0 is returned only when
\* no escape is malformed.
C6_EscapeFailures ==
    op = "hex_escapes"
    => /\ Cook(input, 1, <<>>).err # 0 => ret = Cook(input, 1, <<>>).err
       /\ Cook(input, 1, <<>>).err = 0 => ret >= 0
       /\ \A i \in rd : i <= Len(input)

\* "\x4": the string ends after \xH, the terminator is the bad low nibble
C6_Witness ==
    /\ op = "hex_escapes"
    /\ input = <<92, 120, 52>>
    /\ ret = -2
    /\ Len(input) \in rd

(***************************************************************************)
(* C7: gpsd_packetdump's dispatch.                                         *)
(***************************************************************************)
PrintableChars == 32..126
WhitespaceChars == {9, 10, 11, 12, 13, 32}

Rendering(b) ==
    IF b \in PrintableChars THEN <<b>>
    ELSE <<92, 120, LowerHexDigit(b \div 16), LowerHexDigit(b % 16)>>

RECURSIVE RenderWhile(_, _, _, _)
\* the renderings of the longest prefix of s for which, at each byte, the
\* characters written so far plus need stay below cap
RenderWhile(s, acc, need, cap) ==
    IF s = <<>> \/ ~(Len(acc) + need < cap) THEN acc
    ELSE RenderWhile(Tail(s), acc \o Rendering(Head(s)), need, cap)

\* C8 as claimed: the output is the renderings of the longest prefix for
\* which, at each byte, 4 more characters fit within capacity - 1.
C8_Visibilize_AsClaimed ==
    op = "gps_visibilize"
    => CStr(mem, a_dst) = RenderWhile(input, <<>>, 4, a_cap)

\* C8 amended: the output is the renderings of the longest prefix for which,
\* at each byte, the characters written so far plus 6 are fewer than the
\* capacity; iteration stops only at the end of the source or when that no
\* longer holds.
C8_Visibilize ==
    op = "gps_visibilize"
    => /\ CStr(mem, a_dst) = RenderWhile(input, <<>>, 6, a_cap)
       /\ mem[a_dst + Len(RenderWhile(input, <<>>, 6, a_cap))] = 0

\* section 8's visibilize(dst, 64, [0x00, 0x41, 0xff]) has given \x00A\xff
C8_Witness ==
    /\ op = "gps_visibilize"
    /\ input = <<0, 65, 255>>
    /\ a_cap = 64
    /\ CStr(mem, a_dst) = <<92, 120, 48, 48, 65, 92, 120, 102, 102>>

(***************************************************************************)
(* C9: gps_hexpack in place.                                               *)
(***************************************************************************)
\* the same call with the destination a buffer of its own
DisjointPack == gps_hexpack(Enter(pre, "gps_hexpack"), a_src, DstBase, a_cap)

\* C9: with the destination aliasing the source, gps_hexpack returns what it
\* returns with a disjoint destination and writes the same bytes at the same
\* offsets: on success the whole of 0..capacity-1, decoded bytes then zeros.
C9_InPlaceDecode ==
    (op = "gps_hexpack" /\ a_dst = a_src)
    => /\ ret = DisjointPack.ret
       /\ wr = DisjointPack.st.wr
       /\ \A i \in wr : mem[a_dst + i] = DisjointPack.st.mem[DstBase + i]
       /\ ret >= 0 => wr = 0..(a_cap - 1)

\* "1FF1" has been decoded in place into 0x1f 0xf1 and two zeros
C9_Witness ==
    /\ op = "gps_hexpack"
    /\ a_dst = a_src
    /\ input = <<49, 70, 70, 49>>
    /\ a_cap = 4
    /\ ret = 2
    /\ BytesAt(mem, a_dst, 4) = <<31, 241, 0, 0>>

(***************************************************************************)
(* C10: the printable tests of gpsd_packetdump and gps_visibilize.         *)
(***************************************************************************)
\* gps_visibilize, given the one byte gpsd_packetdump was given and ample
\* room, renders it as the byte itself
VisibilizeCopiesInput ==
    CStr(gps_visibilize(Enter(pre, "gps_visibilize"),
                        a_dst, MaxCap, a_src, a_len).mem, a_dst) = input

\* gpsd_packetdump has been called on a one-byte buffer
OneBytePacketdump == op = "gpsd_packetdump" /\ a_src # NULL /\ a_len = 1

\* C10 as claimed: gpsd_packetdump passes a one-byte buffer [v] through
\* exactly when gps_visibilize renders v as the single character v.
C10_SharedPredicate_AsClaimed ==
    OneBytePacketdump => ((ret = a_src) <=> VisibilizeCopiesInput)

\* C10 amended: the two agree for every byte value except the whitespace
\* control characters 0x09..0x0d, which gpsd_packetdump passes through and
\* gps_visibilize renders as \xHH.
C10_SharedPredicate ==
    OneBytePacketdump
    => IF input[1] \in 9..13
       THEN ret = a_src /\ ~VisibilizeCopiesInput
       ELSE (ret = a_src) <=> VisibilizeCopiesInput

\* a newline has been passed through by gpsd_packetdump
C10_Witness ==
    /\ OneBytePacketdump
    /\ input = <<10>>
    /\ ret = a_src
    /\ ~VisibilizeCopiesInput

=============================================================================
